---- MODULE Spec2Model ----
(***************************************************************************)
(* FlexibleI2C: bus registry, device directory and register transactions.  *)
(* The manager object is the state; every public method is one action.     *)
(* The TwoWire driver (Wire, Wire1) is the environment: what it answers is  *)
(* chosen nondeterministically inside the action that calls it.            *)
(***************************************************************************)
EXTENDS Integers, Sequences, FiniteSets, TLC

\* ------------------------------------------------------------------ bounds
\* millis() readings run over 0..MaxClock
MaxClock == 1
\* longest payload handed to writeBytes / longest in-range readBytes request
MaxLen == 2
\* registers of the device double; it decodes a register address modulo this
DoubleRegs == 2

\* ------------------------------------------------- enum I2CError (values)
SUCCESS == 0
TIMEOUT == 1
NACK_ADDRESS == 2
NACK_DATA == 3
OTHER_ERROR == 4
BUS_NOT_INITIALIZED == 5
INVALID_PARAMETERS == 6

\* the two driver instances and the null pointer
Wire == "Wire"
Wire1 == "Wire1"
nullptr == "nullptr"

VARIABLES
    bench,          \* which hardware is wired to the buses (fixed at start)
    buses,          \* std::map<uint8_t, I2CBusConfig>
    known_devices,  \* std::vector<I2CDeviceInfo>
    last_error,     \* I2CError last_error
    now,            \* the latest reading millis() returned
    device,         \* register file of the storing device double
    prior,          \* the call before, when it was a register write that succeeded
    call,           \* the method called last, with its arguments
    ret,            \* what that call returned
    trace,          \* driver primitives and callbacks that call made, in order
    out_data,       \* bytes that call stored through its output pointer, in order
    http            \* the request a handler was given and the response it returned

vars == <<bench, buses, known_devices, last_error, now, device,
          prior, call, ret, trace, out_data, http>>

\* sequences over S of length 0..n
RECURSIVE SeqsUpTo(_, _)
SeqsUpTo(S, n) ==
    IF n = 0 THEN {<<>>}
    ELSE LET shorter == SeqsUpTo(S, n - 1)
         IN shorter \cup {Append(q, x) : q \in {t \in shorter : Len(t) = n - 1}, x \in S}

\* ------------------------------------------------------------ input sets
\* What is wired to the buses, and what the methods are called with, is one
\* of four benches; each is a set-up the program can run in.
\*   "double": a device double at 0x48 on Wire stores what is written and
\*             returns it; nothing else answers.
\*   "flaky" : a device at 127 on either bus answers with any status, any
\*             byte count and any data; nothing answers in the scan range.
\*   "pair"  : devices at 1 and 126 on Wire come and go: each transaction
\*             they acknowledge fully or not at all.
\*   "twin"  : the same, with a device at 126 on Wire and one on Wire1.
\*   "web"   : a device at 0x48 on Wire comes and goes; the manager is driven
\*             through its request handlers only.
Benches == {"double", "flaky", "pair", "twin", "web"}
ComeAndGo == bench \in {"pair", "twin", "web"}
\* where the device double sits: 0x48 on Wire
DoubleDevices == {<<Wire, 72>>}

\* bus ids handed to initBus (uint8_t): the two valid ones and two beyond
InitBusIds == {0, 1, 2, 255}
\* (sda_pin, scl_pin, frequency) triples handed to initBus
InitArgs == IF bench # "flaky" THEN {<<21, 22, 100000>>}
            ELSE {<<21, 22, 100000>>, <<33, 32, 400000>>}

\* bus ids handed to scanBus
BusIds == {0, 1, 2}
\* bus ids and device addresses handed to the transaction methods
CallBusIds == IF ComeAndGo THEN {0} ELSE {0, 1, 2}
AddrInputs == CASE bench = "double" -> {0, 72, 128}
                [] bench = "flaky" -> {0, 1, 127, 128, 200}
                [] ComeAndGo -> {126}
\* register addresses, payload bytes and payload words handed to the methods
RegInputs == IF bench = "double" THEN {0, 1} ELSE {0}
ByteInputs == IF bench = "double" THEN {0, 255} ELSE {255}
WordInputs == IF bench = "double" THEN {255, 65280} ELSE {4863}

\* a call with this bus id and address is turned away whatever the state is
Refused(b, a) == b > 1 \/ a = 0 \/ a > 127

\* (bus_id, address, reg_address) of a register call; a call that is turned
\* away never reads its register and payload, so these are held at one value
RegisterCalls ==
    {c \in [bus_id : CallBusIds, address : AddrInputs, reg_address : RegInputs] :
        Refused(c.bus_id, c.address) => c.reg_address = 0}
PayloadFor(c, S) == IF Refused(c.bus_id, c.address) THEN {CHOOSE x \in S : TRUE} ELSE S

\* a byte pointer: null, or the caller's array
NullBuf == [null |-> TRUE, bytes |-> <<>>]
Buf(q) == [null |-> FALSE, bytes |-> q]

\* (data, length) pairs handed to writeBytes: a null pointer with length 0 and
\* 1, an array with length 0, and every array of 1..MaxLen bytes with its length
WriteBuffers ==
    {[data |-> NullBuf, length |-> n] : n \in {0, 1}}
    \cup {[data |-> Buf(<<255>>), length |-> 0]}
    \cup {[data |-> Buf(q), length |-> Len(q)] :
            q \in SeqsUpTo(ByteInputs, MaxLen) \ {<<>>}}
\* (data, length) pairs handed to readBytes: a null pointer, and an array with
\* every length 0..MaxLen and two lengths that do not fit in eight bits
ReadBuffers ==
    {[data |-> NullBuf, length |-> n] : n \in {0, 1}}
    \cup {[data |-> Buf(<<>>), length |-> n] : n \in (0..MaxLen) \cup {256, 257}}
ReadBuffersFor(c) ==
    IF Refused(c.bus_id, c.address)
    THEN {w \in ReadBuffers : w.length <= 1}
    ELSE ReadBuffers
WriteBuffersFor(c) ==
    IF Refused(c.bus_id, c.address)
    THEN {w \in WriteBuffers : w.data \in {NullBuf, Buf(<<255>>)}}
    ELSE WriteBuffers

\* ------------------------------------------------------------- structures
\* I2CBusConfig(sda, scl, freq): wire_instance(nullptr), initialized(false)
I2CBusConfig(sda, scl, freq) ==
    [sda_pin |-> sda, scl_pin |-> scl, frequency |-> freq,
     wire_instance |-> nullptr, initialized |-> FALSE]

\* I2CDeviceInfo(addr, bus, name): responsive(false), last_seen(0)
I2CDeviceInfo(addr, bus, name) ==
    [address |-> addr, bus_id |-> bus, device_name |-> name,
     responsive |-> FALSE, last_seen |-> 0]

\* std::map operator[] assignment
MapPut(m, k, v) == [x \in DOMAIN m \cup {k} |-> IF x = k THEN v ELSE m[x]]

\* ---------------------------------------------------- the TwoWire driver
\* one record per primitive call or callback, kept in call order
Ev(obj, fn, args, res) == [obj |-> obj, fn |-> fn, args |-> args, res |-> res]

IsWire(e) == e.obj \in {Wire, Wire1}
WireCalls(t) == SelectSeq(t, IsWire)

\* begin(sda, scl, frequency) -> bool : bring-up may fail on any bench
BeginResults(wire, sda, scl, freq) == {TRUE, FALSE}

\* addresses at which a device may answer
MayRespond(wire) ==
    CASE bench = "double" -> {a \in 1..127 : <<wire, a>> \in DoubleDevices}
      [] bench = "flaky" -> {127}
      [] bench = "pair" -> IF wire = Wire THEN {1, 126} ELSE {}
      [] bench = "twin" -> {126}
      [] bench = "web" -> IF wire = Wire THEN {72} ELSE {}
\* bytes a device that is no double may deliver
FlakyBytes == IF bench = "flaky" THEN {18, 255} ELSE {255}

IsDouble(wire, address) == bench = "double" /\ <<wire, address>> \in DoubleDevices

\* the double's register file holds its non-zero registers; the others read 0
MemGet(mem, r) == IF r \in DOMAIN mem THEN mem[r] ELSE 0
MemPut(mem, r, v) ==
    [x \in (DOMAIN mem \cup {r}) \ (IF v = 0 THEN {r} ELSE {}) |->
        IF x = r THEN v ELSE mem[x]]

RECURSIVE MemStore(_, _, _)
\* store the payload at consecutive registers starting at r
MemStore(mem, r, payload) ==
    IF payload = <<>> THEN mem
    ELSE MemStore(MemPut(mem, r % DoubleRegs, Head(payload)), r + 1, Tail(payload))

\* the double delivers n bytes from register r on
DoubleRead(mem, r, n) == [i \in 1..n |-> MemGet(mem, (r + i - 1) % DoubleRegs)]

\* endTransmission(stop) -> status, for the transaction opened on `address`
\* with `bytes` queued: the possible (status, register file afterwards) pairs.
\* Status 0 is an acknowledge, 1..4 are the driver's failure codes; an
\* address-only transaction has no data phase and is acknowledged or not.
\* The double takes the first byte as the register and stores the rest.
EndTransmission(mem, wire, address, bytes) ==
    IF bench = "double" THEN
        IF IsDouble(wire, address)
        THEN {[status |-> 0,
               mem |-> IF bytes = <<>> THEN mem
                       ELSE MemStore(mem, bytes[1], Tail(bytes))]}
        ELSE {[status |-> 2, mem |-> mem]}
    ELSE IF address \notin MayRespond(wire) THEN {[status |-> 2, mem |-> mem]}
    ELSE IF bytes = <<>> \/ ComeAndGo
    THEN {[status |-> s, mem |-> mem] : s \in {0, 2}}
    ELSE {[status |-> s, mem |-> mem] : s \in 0..4}

\* requestFrom(address, quantity, stop) -> byte count, and the bytes that the
\* following read() calls deliver; `reg` is the register the address phase
\* before it selected
RequestFrom(mem, wire, address, reg, quantity) ==
    IF bench = "double" THEN
        IF IsDouble(wire, address)
        THEN {[count |-> quantity, rx |-> DoubleRead(mem, reg, quantity)]}
        ELSE {[count |-> 0, rx |-> <<>>]}
    ELSE IF address \notin MayRespond(wire) THEN {[count |-> 0, rx |-> <<>>]}
    ELSE {[count |-> Len(q), rx |-> q] :
            q \in {t \in SeqsUpTo(FlakyBytes, quantity) :
                      ComeAndGo => Len(t) \in {0, quantity}}}

\* the trace entries of the primitives
evBeginTransmission(wire, address) == Ev(wire, "beginTransmission", <<address>>, 0)
evWrite(wire, byte) == Ev(wire, "write", <<byte>>, 1)
evEndTransmission(wire, stop, status) == Ev(wire, "endTransmission", <<stop>>, status)
evRequestFrom(wire, address, quantity, stop, count) ==
    Ev(wire, "requestFrom", <<address, quantity, stop>>, count)
evRead(wire, byte) == Ev(wire, "read", <<>>, byte)

\* ------------------------------------------------------------ bus registry
isBusInitialized(bus_id) ==
    bus_id \in DOMAIN buses /\ buses[bus_id].initialized

getBus(bus_id) ==
    IF bus_id \in DOMAIN buses /\ buses[bus_id].initialized
    THEN buses[bus_id].wire_instance
    ELSE nullptr

\* fault: the bound of the bus id is off by one
busIdInvalid_OffByOne(bus_id) == bus_id > 2

\* initBus, line 157: the bus id is beyond the two buses
busIdInvalid(bus_id) == bus_id > 1

\* fault: the registry is not consulted before the bring-up
alreadyInitialized_Never(bus_id) == FALSE

\* initBus, line 162: the bus is in the map and initialized
alreadyInitialized(bus_id) ==
    bus_id \in DOMAIN buses /\ buses[bus_id].initialized

\* fault: both bus ids get the same driver instance
wireFor_AlwaysWire(bus_id) == Wire

\* initBus, line 166: (bus_id == 0) ? &Wire : &Wire1
wireFor(bus_id) == IF bus_id = 0 THEN Wire ELSE Wire1

\* fault: the configuration is stored as initialized before begin has answered
bringUp_StoreFirst(bus_id, sda_pin, scl_pin, frequency, success) ==
    LET wire_instance == IF bus_id = 0 THEN Wire ELSE Wire1
        config == [I2CBusConfig(sda_pin, scl_pin, frequency)
                     EXCEPT !.wire_instance = wire_instance, !.initialized = TRUE]
    IN /\ trace' = <<Ev(wire_instance, "begin", <<sda_pin, scl_pin, frequency>>,
                        IF success THEN 1 ELSE 0)>>
       /\ buses' = MapPut(buses, bus_id, config)
       /\ last_error' = IF success THEN SUCCESS ELSE OTHER_ERROR
       /\ ret' = success

\* initBus, lines 166-181: bring the bus up; `success` is what begin returned
bringUp(bus_id, sda_pin, scl_pin, frequency, success) ==
    LET wire_instance == wireFor(bus_id)
        config == [I2CBusConfig(sda_pin, scl_pin, frequency)
                     EXCEPT !.wire_instance = wire_instance]
    IN /\ trace' = <<Ev(wire_instance, "begin", <<sda_pin, scl_pin, frequency>>,
                        IF success THEN 1 ELSE 0)>>
       /\ IF success THEN
               /\ buses' = MapPut(buses, bus_id, [config EXCEPT !.initialized = TRUE])
               /\ last_error' = SUCCESS
               /\ ret' = TRUE
          ELSE
               /\ last_error' = OTHER_ERROR
               /\ ret' = FALSE
               /\ UNCHANGED buses

initBus(bus_id, sda_pin, scl_pin, frequency) ==
    /\ call' = [op |-> "initBus", bus_id |-> bus_id, sda_pin |-> sda_pin,
                scl_pin |-> scl_pin, frequency |-> frequency]
    /\ out_data' = <<>>
    /\ UNCHANGED <<bench, known_devices, now, device, prior>>
    /\ IF busIdInvalid(bus_id) THEN
            /\ last_error' = INVALID_PARAMETERS
            /\ ret' = FALSE
            /\ trace' = <<>>
            /\ UNCHANGED buses
       ELSE IF alreadyInitialized(bus_id) THEN
            /\ ret' = TRUE
            /\ trace' = <<>>
            /\ UNCHANGED <<buses, last_error>>
       ELSE \E success \in BeginResults(wireFor(bus_id),
                                        sda_pin, scl_pin, frequency) :
            bringUp(bus_id, sda_pin, scl_pin, frequency, success)

\* ------------------------------------------------------------- validation
\* fault: the upper bound of the address is off by one
validateBusAndAddress_OffByOne(bus_id, address) ==
    IF ~isBusInitialized(bus_id)
    THEN [ok |-> FALSE, last_error |-> BUS_NOT_INITIALIZED]
    ELSE IF address = 0 \/ address > 128
    THEN [ok |-> FALSE, last_error |-> INVALID_PARAMETERS]
    ELSE [ok |-> TRUE, last_error |-> last_error]

\* what validateBusAndAddress returns and the last_error it leaves
validateBusAndAddress(bus_id, address) ==
    IF ~isBusInitialized(bus_id)
    THEN [ok |-> FALSE, last_error |-> BUS_NOT_INITIALIZED]
    ELSE IF address = 0 \/ address > 127
    THEN [ok |-> FALSE, last_error |-> INVALID_PARAMETERS]
    ELSE [ok |-> TRUE, last_error |-> last_error]

\* fault: every failure status is reported as OTHER_ERROR
ErrorOf_Collapsed(error) == IF error = 0 THEN SUCCESS ELSE OTHER_ERROR

\* setError(static_cast<I2CError>(error)) after endTransmission
ErrorOf(error) == IF error = 0 THEN SUCCESS ELSE error

\* fault: the length is not looked at
nullOrEmpty_NullOnly(data, length) == data.null

\* writeBytes line 315, readBytes line 392: !data || length == 0
nullOrEmpty(data, length) == data.null \/ length = 0

\* the frame every transaction method shares: registry, directory, clock
TransactionFrame == UNCHANGED <<bench, buses, known_devices, now, prior>>

\* the trace of one write transaction: open, queue the bytes, close with stop
WriteTrace(wire, address, bytes, status) ==
    <<evBeginTransmission(wire, address)>>
    \o [i \in 1..Len(bytes) |-> evWrite(wire, bytes[i])]
    \o <<evEndTransmission(wire, 1, status)>>

\* fault: the address phase is closed with a stop condition
SelectTrace_WithStop(wire, address, reg_address, status) ==
    <<evBeginTransmission(wire, address), evWrite(wire, reg_address),
      evEndTransmission(wire, 1, status)>>

\* the trace of the address phase of a read: open, queue the register, close without stop
SelectTrace(wire, address, reg_address, status) ==
    <<evBeginTransmission(wire, address), evWrite(wire, reg_address),
      evEndTransmission(wire, 0, status)>>

\* ------------------------------------------------------------------ writes
\* fault: a transaction whose close failed is run a second time
WriteTransaction_Retry(bus_id, device_address, bytes) ==
    LET wire == getBus(bus_id)
    IN \E e \in EndTransmission(device, wire, device_address, bytes) :
        IF e.status = 0 THEN
            /\ trace' = WriteTrace(wire, device_address, bytes, e.status)
            /\ device' = e.mem
            /\ last_error' = ErrorOf(e.status)
            /\ ret' = TRUE
        ELSE \E f \in EndTransmission(e.mem, wire, device_address, bytes) :
            /\ trace' = WriteTrace(wire, device_address, bytes, e.status)
                            \o WriteTrace(wire, device_address, bytes, f.status)
            /\ device' = f.mem
            /\ last_error' = ErrorOf(f.status)
            /\ ret' = (f.status = 0)

\* one write transaction carrying `bytes`, and the status mapping that follows it
WriteTransaction(bus_id, device_address, bytes) ==
    LET wire == getBus(bus_id)
    IN \E e \in EndTransmission(device, wire, device_address, bytes) :
        /\ trace' = WriteTrace(wire, device_address, bytes, e.status)
        /\ device' = e.mem
        /\ last_error' = ErrorOf(e.status)
        /\ ret' = (e.status = 0)

\* fault: the value is queued before the register address
registerPayload_Swapped(reg_address, data) == <<data, reg_address>>

\* writeRegister, lines 280-281: the bytes queued, in order
registerPayload(reg_address, data) == <<reg_address, data>>

writeRegister(bus_id, device_address, reg_address, data) ==
    /\ call' = [op |-> "writeRegister", bus_id |-> bus_id,
                address |-> device_address, reg_address |-> reg_address,
                data |-> data]
    /\ out_data' = <<>>
    /\ TransactionFrame
    /\ LET v == validateBusAndAddress(bus_id, device_address)
       IN IF ~v.ok THEN
               /\ last_error' = v.last_error
               /\ ret' = FALSE
               /\ trace' = <<>>
               /\ UNCHANGED device
          ELSE WriteTransaction(bus_id, device_address, registerPayload(reg_address, data))

\* fault: the low byte is queued before the high byte
wordPayload_LowFirst(reg_address, data) ==
    <<reg_address, data % 256, (data \div 256) % 256>>

\* writeRegister16, lines 299-301: write(reg_address), write(data >> 8),
\* write(data & 0xFF)
wordPayload(reg_address, data) ==
    <<reg_address, (data \div 256) % 256, data % 256>>

writeRegister16(bus_id, device_address, reg_address, data) ==
    /\ call' = [op |-> "writeRegister16", bus_id |-> bus_id,
                address |-> device_address, reg_address |-> reg_address,
                data |-> data]
    /\ out_data' = <<>>
    /\ TransactionFrame
    /\ LET v == validateBusAndAddress(bus_id, device_address)
       IN IF ~v.ok THEN
               /\ last_error' = v.last_error
               /\ ret' = FALSE
               /\ trace' = <<>>
               /\ UNCHANGED device
          ELSE WriteTransaction(bus_id, device_address, wordPayload(reg_address, data))

\* the call reads the first `length` bytes of the caller's array
writeBytes(bus_id, device_address, reg_address, data, length) ==
    /\ call' = [op |-> "writeBytes", bus_id |-> bus_id,
                address |-> device_address, reg_address |-> reg_address,
                data |-> data, length |-> length]
    /\ out_data' = <<>>
    /\ TransactionFrame
    /\ LET v == validateBusAndAddress(bus_id, device_address)
       IN IF ~v.ok \/ nullOrEmpty(data, length) THEN
               /\ last_error' = INVALID_PARAMETERS
               /\ ret' = FALSE
               /\ trace' = <<>>
               /\ UNCHANGED device
          ELSE WriteTransaction(bus_id, device_address,
                                <<reg_address>> \o SubSeq(data.bytes, 1, length))

\* ------------------------------------------------------------------- reads
RECURSIVE BitOr(_, _)
\* x | y
BitOr(x, y) ==
    IF x = 0 THEN y
    ELSE IF y = 0 THEN x
    ELSE (IF x % 2 = 1 \/ y % 2 = 1 THEN 1 ELSE 0) + 2 * BitOr(x \div 2, y \div 2)

\* read(): the next byte received, -1 when none is left
ReadAt(rx, i) == IF i <= Len(rx) THEN rx[i] ELSE -1
\* the first n read() results, each stored in a uint8_t
Taken(rx, n) == [i \in 1..n |-> ReadAt(rx, i) % 256]

\* fault: the count received is compared with the length in eight bits
allReceived_Truncated(bytes_received, length) == bytes_received = length % 256

\* fault: a partial read is taken for a whole one
allReceived_Partial(bytes_received, length) == bytes_received > 0

\* readBytes, line 409: every requested byte has arrived
allReceived(bytes_received, length) == bytes_received = length

\* the trace of requestFrom(address, quantity, true) and of the read() calls after it
RequestTrace(wire, address, quantity, count, taken) ==
    <<evRequestFrom(wire, address, quantity, 1, count)>>
    \o [i \in 1..Len(taken) |-> evRead(wire, taken[i])]

readRegister(bus_id, device_address, reg_address) ==
    /\ call' = [op |-> "readRegister", bus_id |-> bus_id,
                address |-> device_address, reg_address |-> reg_address]
    /\ out_data' = <<>>
    /\ TransactionFrame
    /\ LET v == validateBusAndAddress(bus_id, device_address)
           wire == getBus(bus_id)
       IN IF ~v.ok THEN
               /\ last_error' = v.last_error
               /\ ret' = 0
               /\ trace' = <<>>
               /\ UNCHANGED device
          ELSE \E e \in EndTransmission(device, wire, device_address, <<reg_address>>) :
               /\ device' = e.mem
               /\ IF e.status # 0 THEN
                       /\ last_error' = ErrorOf(e.status)
                       /\ ret' = 0
                       /\ trace' = SelectTrace(wire, device_address, reg_address, e.status)
                  ELSE \E r \in RequestFrom(e.mem, wire, device_address, reg_address, 1) :
                       LET bytes_received == r.count % 256
                       IN IF bytes_received = 1 THEN
                               /\ last_error' = SUCCESS
                               /\ ret' = ReadAt(r.rx, 1) % 256
                               /\ trace' = SelectTrace(wire, device_address, reg_address, 0)
                                   \o RequestTrace(wire, device_address, 1, bytes_received,
                                                   Taken(r.rx, 1))
                          ELSE
                               /\ last_error' = TIMEOUT
                               /\ ret' = 0
                               /\ trace' = SelectTrace(wire, device_address, reg_address, 0)
                                   \o RequestTrace(wire, device_address, 1, bytes_received, <<>>)

readRegister16(bus_id, device_address, reg_address) ==
    /\ call' = [op |-> "readRegister16", bus_id |-> bus_id,
                address |-> device_address, reg_address |-> reg_address]
    /\ out_data' = <<>>
    /\ TransactionFrame
    /\ LET v == validateBusAndAddress(bus_id, device_address)
           wire == getBus(bus_id)
       IN IF ~v.ok THEN
               /\ last_error' = v.last_error
               /\ ret' = 0
               /\ trace' = <<>>
               /\ UNCHANGED device
          ELSE \E e \in EndTransmission(device, wire, device_address, <<reg_address>>) :
               /\ device' = e.mem
               /\ IF e.status # 0 THEN
                       /\ last_error' = ErrorOf(e.status)
                       /\ ret' = 0
                       /\ trace' = SelectTrace(wire, device_address, reg_address, e.status)
                  ELSE \E r \in RequestFrom(e.mem, wire, device_address, reg_address, 2) :
                       LET bytes_received == r.count % 256
                       IN IF bytes_received = 2 THEN
                               /\ last_error' = SUCCESS
                               /\ ret' = BitOr((ReadAt(r.rx, 1) * 256) % 65536, ReadAt(r.rx, 2)) % 65536
                               /\ trace' = SelectTrace(wire, device_address, reg_address, 0)
                                   \o RequestTrace(wire, device_address, 2, bytes_received,
                                                   Taken(r.rx, 2))
                          ELSE
                               /\ last_error' = TIMEOUT
                               /\ ret' = 0
                               /\ trace' = SelectTrace(wire, device_address, reg_address, 0)
                                   \o RequestTrace(wire, device_address, 2, bytes_received, <<>>)

\* `data` is null or points at an array of at least `length` bytes
readBytes(bus_id, device_address, reg_address, data, length) ==
    /\ call' = [op |-> "readBytes", bus_id |-> bus_id,
                address |-> device_address, reg_address |-> reg_address,
                data |-> data, length |-> length]
    /\ TransactionFrame
    /\ LET v == validateBusAndAddress(bus_id, device_address)
           wire == getBus(bus_id)
           quantity == length % 256
       IN IF ~v.ok \/ nullOrEmpty(data, length) THEN
               /\ last_error' = INVALID_PARAMETERS
               /\ ret' = FALSE
               /\ trace' = <<>>
               /\ out_data' = <<>>
               /\ UNCHANGED device
          ELSE \E e \in EndTransmission(device, wire, device_address, <<reg_address>>) :
               /\ device' = e.mem
               /\ IF e.status # 0 THEN
                       /\ last_error' = ErrorOf(e.status)
                       /\ ret' = FALSE
                       /\ trace' = SelectTrace(wire, device_address, reg_address, e.status)
                       /\ out_data' = <<>>
                  ELSE \E r \in RequestFrom(e.mem, wire, device_address, reg_address, quantity) :
                       LET bytes_received == r.count % 256
                       IN IF allReceived(bytes_received, length) THEN
                               /\ last_error' = SUCCESS
                               /\ ret' = TRUE
                               /\ out_data' = Taken(r.rx, length)
                               /\ trace' = SelectTrace(wire, device_address, reg_address, 0)
                                   \o RequestTrace(wire, device_address, quantity,
                                                   bytes_received, Taken(r.rx, length))
                          ELSE
                               /\ last_error' = TIMEOUT
                               /\ ret' = FALSE
                               /\ out_data' = <<>>
                               /\ trace' = SelectTrace(wire, device_address, reg_address, 0)
                                   \o RequestTrace(wire, device_address, quantity,
                                                   bytes_received, <<>>)

\* ---------------------------------------------------------------- scanning
onDeviceFound(bus_id, address) == Ev("this", "onDeviceFound", <<bus_id, address>>, 0)
onDeviceLost(bus_id, address) == Ev("this", "onDeviceLost", <<bus_id, address>>, 0)
\* a write to known_devices, noted in the trace where it happens
evRecord(what, bus_id, address) == Ev("known_devices", what, <<bus_id, address>>, 0)

\* indices of the records for (address, bus_id)
Matches(devices, address, bus_id) ==
    {i \in 1..Len(devices) :
        devices[i].address = address /\ devices[i].bus_id = bus_id}
MinOf(S) == CHOOSE x \in S : \A y \in S : x <= y

\* fault: a record that exists has its time refreshed but is not marked responsive
recordFound_StaleFlag(devices, address, bus_id, millis) ==
    LET m == Matches(devices, address, bus_id)
    IN IF m # {}
       THEN [devices EXCEPT ![MinOf(m)] = [@ EXCEPT !.last_seen = millis]]
       ELSE Append(devices,
                   [I2CDeviceInfo(address, bus_id, "Unknown Device")
                      EXCEPT !.responsive = TRUE, !.last_seen = millis])

\* fault: a record is appended for every acknowledgement
recordFound_AlwaysAppend(devices, address, bus_id, millis) ==
    Append(devices,
           [I2CDeviceInfo(address, bus_id, "Unknown Device")
              EXCEPT !.responsive = TRUE, !.last_seen = millis])

\* scanBus, lines 218-233: refresh the first record for (address, bus_id), or append one
recordFound(devices, address, bus_id, millis) ==
    LET m == Matches(devices, address, bus_id)
    IN IF m # {}
       THEN [devices EXCEPT ![MinOf(m)] =
                [@ EXCEPT !.responsive = TRUE, !.last_seen = millis]]
       ELSE Append(devices,
                   [I2CDeviceInfo(address, bus_id, "Unknown Device")
                      EXCEPT !.responsive = TRUE, !.last_seen = millis])

\* scanBus, lines 211-212: the probes of the addresses first..last, in this order
probeTrace(wire, status, first, last) ==
    [i \in 1..(2 * (last + 1 - first)) |->
        LET address == first + ((i - 1) \div 2)
        IN IF i % 2 = 1 THEN evBeginTransmission(wire, address)
           ELSE evEndTransmission(wire, 1, status[address])]

\* fault: the record is written before the callback is invoked
found_RecordFirst(address, bus_id, millis, st) ==
    [found_addresses |-> Append(st.found_addresses, address),
     devices |-> recordFound(st.devices, address, bus_id, millis),
     trace |-> st.trace \o
         <<evRecord(IF Matches(st.devices, address, bus_id) # {}
                    THEN "refresh" ELSE "push_back",
                    bus_id, address),
           onDeviceFound(bus_id, address)>>]

\* scanBus, lines 214-234: the body for an address that acknowledged; st
\* carries found_addresses, known_devices and the trace so far, millis is
\* what millis() returns in this body
found(address, bus_id, millis, st) ==
    [found_addresses |-> Append(st.found_addresses, address),
     devices |-> recordFound(st.devices, address, bus_id, millis),
     trace |-> st.trace \o
         <<onDeviceFound(bus_id, address),
           evRecord(IF Matches(st.devices, address, bus_id) # {}
                    THEN "refresh" ELSE "push_back",
                    bus_id, address)>>]

RECURSIVE probeLoop(_, _, _, _, _, _, _)
\* scanBus, line 210: for (address = first; address < limit; address++).
\* The addresses up to the next one that acknowledges only add their probes
\* to the trace, so the loop goes from one acknowledging address to the next.
\* millis[a] is what millis() returns in the body for address a.
probeLoop(first, limit, bus_id, wire, status, millis, st) ==
    LET acks == {a \in first..(limit - 1) : status[a] = 0}
    IN IF acks = {}
       THEN [st EXCEPT !.trace = @ \o probeTrace(wire, status, first, limit - 1)]
       ELSE LET address == MinOf(acks)
                probed == [st EXCEPT !.trace =
                              @ \o probeTrace(wire, status, first, address)]
            IN probeLoop(address + 1, limit, bus_id, wire, status, millis,
                         found(address, bus_id, millis[address], probed))

InSeq(x, q) == \E i \in 1..Len(q) : q[i] = x

\* fault: the record's responsive flag is not looked at
IsLost_AnyRecord(devices, i, bus_id, found_addresses) ==
    /\ devices[i].bus_id = bus_id
    /\ ~InSeq(devices[i].address, found_addresses)

\* fault: the record's bus id is not looked at
IsLost_AnyBus(devices, i, bus_id, found_addresses) ==
    /\ ~InSeq(devices[i].address, found_addresses)
    /\ devices[i].responsive

\* scanBus, lines 237-251: the record at index i is lost
IsLost(devices, i, bus_id, found_addresses) ==
    /\ devices[i].bus_id = bus_id
    /\ ~InSeq(devices[i].address, found_addresses)
    /\ devices[i].responsive

RECURSIVE lostLoop(_, _, _, _)
\* the callbacks of the second loop, in the order of known_devices
lostLoop(i, devices, bus_id, found_addresses) ==
    IF i > Len(devices) THEN <<>>
    ELSE (IF IsLost(devices, i, bus_id, found_addresses)
          THEN <<evRecord("lost", bus_id, devices[i].address),
                 onDeviceLost(bus_id, devices[i].address)>>
          ELSE <<>>)
         \o lostLoop(i + 1, devices, bus_id, found_addresses)

\* fault: a lost record is erased from the vector
markLost_Erase(devices, bus_id, found_addresses) ==
    LET kept == {i \in 1..Len(devices) : ~IsLost(devices, i, bus_id, found_addresses)}
        nth(n) == CHOOSE i \in kept : Cardinality({j \in kept : j < i}) = n - 1
    IN [n \in 1..Cardinality(kept) |-> devices[nth(n)]]

\* scanBus, lines 237-251: the records after the second loop
markLost(devices, bus_id, found_addresses) ==
    [i \in 1..Len(devices) |->
        IF IsLost(devices, i, bus_id, found_addresses)
        THEN [devices[i] EXCEPT !.responsive = FALSE]
        ELSE devices[i]]

\* scanBus, line 210: for (uint8_t address = 1; address < 127; address++)
sweepFirst == 1
\* fault: the sweep includes 127
sweepLimit_Inclusive == 127 + 1
sweepLimit == 127
SweepAddresses == sweepFirst..(sweepLimit - 1)

\* the status of the probe of every address of the sweep: one choice of the
\* driver's answers
ProbeAnswers(wire) ==
    LET open == {a \in SweepAddresses : a \in MayRespond(wire) /\ bench # "double"}
        fixed(a) == (CHOOSE e \in EndTransmission(device, wire, a, <<>>) : TRUE).status
    IN {[a \in SweepAddresses |-> IF a \in open THEN g[a] ELSE fixed(a)] :
            g \in [open -> {0, 2}]}

MaxOf(S) == CHOOSE x \in S : \A y \in S : y <= x

\* millis() is read once for each address that acknowledges; the readings
\* start at the latest reading `from` and never go back
Readings(acks, from) ==
    {f \in [acks -> from..MaxClock] : \A a, b \in acks : a < b => f[a] <= f[b]}

\* fault: the bus id is range-checked instead of looked up in the registry
scanRefused_RangeOnly(bus_id) == bus_id > 1

\* scanBus, lines 199-208: the bus is not initialized, or has no handle
scanRefused(bus_id) == ~isBusInitialized(bus_id) \/ getBus(bus_id) = nullptr

scanBus(bus_id) ==
    /\ call' = [op |-> "scanBus", bus_id |-> bus_id]
    /\ out_data' = <<>>
    /\ UNCHANGED <<bench, buses, device, prior>>
    /\ IF scanRefused(bus_id) THEN
            /\ last_error' = BUS_NOT_INITIALIZED
            /\ ret' = <<>>
            /\ trace' = <<>>
            /\ UNCHANGED <<known_devices, now>>
       ELSE \E status \in ProbeAnswers(getBus(bus_id)) :
            \E millis \in Readings({a \in SweepAddresses : status[a] = 0}, now) :
            LET swept == probeLoop(sweepFirst, sweepLimit, bus_id, getBus(bus_id), status, millis,
                                   [found_addresses |-> <<>>,
                                    devices |-> known_devices,
                                    trace |-> <<>>])
            IN /\ known_devices' = markLost(swept.devices, bus_id, swept.found_addresses)
               /\ trace' = swept.trace
                    \o lostLoop(1, swept.devices, bus_id, swept.found_addresses)
               /\ now' = IF DOMAIN millis = {} THEN now
                         ELSE millis[MaxOf(DOMAIN millis)]
               /\ last_error' = SUCCESS
               /\ ret' = swept.found_addresses

getAllDevices == known_devices

isDevicePresent(bus_id, address) ==
    /\ call' = [op |-> "isDevicePresent", bus_id |-> bus_id, address |-> address]
    /\ out_data' = <<>>
    /\ TransactionFrame
    /\ LET v == validateBusAndAddress(bus_id, address)
           wire == getBus(bus_id)
       IN IF ~v.ok THEN
               /\ last_error' = v.last_error
               /\ ret' = FALSE
               /\ trace' = <<>>
               /\ UNCHANGED device
          ELSE \E e \in EndTransmission(device, wire, address, <<>>) :
               /\ device' = e.mem
               /\ trace' = <<evBeginTransmission(wire, address),
                             evEndTransmission(wire, 1, e.status)>>
               /\ ret' = (e.status = 0)
               /\ UNCHANGED last_error

\* ------------------------------------------------------ raw passthroughs
\* (quantity, stop) pairs handed to the raw requestFrom
RawRequests == {[quantity |-> q, stop |-> t] : q \in {1, 2}, t \in {0, 1}}
RawRequestsFor(b, a) ==
    IF Refused(b, a) THEN {[quantity |-> 1, stop |-> 1]} ELSE RawRequests

\* endTransmission(stop) of the raw passthrough closes whatever transmission
\* the caller opened before, on any address: the status is one the wire can give
RawStatus(wire) == IF bench = "flaky" THEN 0..4 ELSE {0, 2}

beginTransmission(bus_id, address) ==
    /\ call' = [op |-> "beginTransmission", bus_id |-> bus_id, address |-> address]
    /\ out_data' = <<>>
    /\ TransactionFrame
    /\ UNCHANGED device
    /\ LET v == validateBusAndAddress(bus_id, address)
       IN IF ~v.ok THEN
               /\ last_error' = v.last_error
               /\ ret' = FALSE
               /\ trace' = <<>>
          ELSE
               /\ trace' = <<evBeginTransmission(getBus(bus_id), address)>>
               /\ ret' = TRUE
               /\ UNCHANGED last_error

endTransmission(bus_id, stop) ==
    /\ call' = [op |-> "endTransmission", bus_id |-> bus_id, stop |-> stop]
    /\ out_data' = <<>>
    /\ TransactionFrame
    /\ UNCHANGED device
    /\ IF ~isBusInitialized(bus_id) THEN
            /\ last_error' = BUS_NOT_INITIALIZED
            /\ ret' = FALSE
            /\ trace' = <<>>
       ELSE \E error \in RawStatus(getBus(bus_id)) :
            /\ trace' = <<evEndTransmission(getBus(bus_id), stop, error)>>
            /\ last_error' = ErrorOf(error)
            /\ ret' = (error = 0)

\* the bytes received stay in the driver; the method only compares the count
requestFrom(bus_id, address, quantity, stop) ==
    /\ call' = [op |-> "requestFrom", bus_id |-> bus_id, address |-> address,
                quantity |-> quantity, stop |-> stop]
    /\ out_data' = <<>>
    /\ TransactionFrame
    /\ UNCHANGED device
    /\ LET v == validateBusAndAddress(bus_id, address)
           wire == getBus(bus_id)
       IN IF ~v.ok THEN
               /\ last_error' = v.last_error
               /\ ret' = FALSE
               /\ trace' = <<>>
          ELSE \E r \in RequestFrom(device, wire, address, 0, quantity) :
               LET bytes_received == r.count % 256
               IN /\ trace' = <<evRequestFrom(wire, address, quantity, stop, bytes_received)>>
                  /\ ret' = (bytes_received = quantity)
                  /\ UNCHANGED last_error

\* -------------------------------------------------------- request handlers
\* A parameter value is a String, modelled as its sequence of characters; a
\* request is the map from the names of the parameters present to their values.
DecDigits == <<"0", "1", "2", "3", "4", "5", "6", "7", "8", "9">>
HexLower == DecDigits \o <<"a", "b", "c", "d", "e", "f">>
HexUpper == DecDigits \o <<"A", "B", "C", "D", "E", "F">>

\* the value of character c as a digit of the base, -1 when it is none
DigitOf(c, base) ==
    LET hits == {i \in 1..base : HexLower[i] = c \/ HexUpper[i] = c}
    IN IF hits = {} THEN -1 ELSE (CHOOSE i \in hits : TRUE) - 1

IsSpace(c) == c \in {" ", "\t", "\n", "\r"}

RECURSIVE SkipSpace(_)
SkipSpace(str) ==
    IF str # <<>> /\ IsSpace(Head(str)) THEN SkipSpace(Tail(str)) ELSE str

RECURSIVE Digits(_, _, _)
\* the number the leading digits of str spell, continuing from acc
Digits(str, base, acc) ==
    IF str = <<>> \/ DigitOf(Head(str), base) < 0 THEN acc
    ELSE Digits(Tail(str), base, acc * base + DigitOf(Head(str), base))

\* strtol(str, NULL, base) for base 10 and 16: leading white space, a sign,
\* for base 16 a 0x prefix in front of a hex digit, then the digits; 0 when
\* there is no digit
strtol(str, base) ==
    LET t == SkipSpace(str)
        signed == t # <<>> /\ Head(t) \in {"-", "+"}
        u == IF signed THEN Tail(t) ELSE t
        prefixed == /\ base = 16 /\ Len(u) >= 3
                    /\ u[1] = "0" /\ u[2] \in {"x", "X"}
                    /\ DigitOf(u[3], 16) >= 0
        n == Digits(IF prefixed THEN Tail(Tail(u)) ELSE u, base, 0)
    IN IF signed /\ Head(t) = "-" THEN 0 - n ELSE n

\* String::toInt()
toInt(str) == strtol(str, 10)

\* conversion to uint8_t
U8(n) == n % 256
\* conversion of a long to uint32_t; it keeps every value that is not
\* negative, and the frequencies handed in are not
U32(n) == n

RECURSIVE HexOf(_)
\* String(n, HEX): lower-case digits, no leading zero
HexOf(n) ==
    IF n < 16 THEN <<HexLower[n + 1]>>
    ELSE HexOf(n \div 16) \o <<HexLower[(n % 16) + 1]>>
\* "0x" + String(n, HEX)
Hex0x(n) == <<"0", "x">> \o HexOf(n)

\* params.find(name) == params.end() for one of the names
\* params[name] of a std::map<String, String>: the value stored under the name,
\* the empty String when there is none
Param(params, name) == IF name \in DOMAIN params THEN params[name] ELSE <<>>

\* the required parameters the endpoints are registered with
Required ==
    [handleInitBus |-> {"bus_id", "sda_pin", "scl_pin"},
     handleScanBus |-> {"bus_id"},
     handleReadRegister |-> {"bus_id", "device_addr", "reg_addr"},
     handleWriteRegister |-> {"bus_id", "device_addr", "reg_addr", "value"},
     handlePingDevice |-> {"bus_id", "device_addr"},
     handleReadBytes |-> {"bus_id", "device_addr", "reg_addr", "length"},
     handleWriteBytes |-> {"bus_id", "device_addr", "reg_addr", "data"}]

\* params.find(n) == params.end() for one of the names: && in place of ||
Missing_All(params, names) == \A n \in names : n \notin DOMAIN params
Missing(params, names) == \E n \in names : n \notin DOMAIN params

getErrorString(error) ==
    CASE error = SUCCESS -> "Success"
      [] error = TIMEOUT -> "Timeout"
      [] error = NACK_ADDRESS -> "NACK on address"
      [] error = NACK_DATA -> "NACK on data"
      [] error = OTHER_ERROR -> "Other error"
      [] error = BUS_NOT_INITIALIZED -> "Bus not initialized"
      [] error = INVALID_PARAMETERS -> "Invalid parameters"
      [] OTHER -> "Unknown error"

NoHttp == [handler |-> "none"]
\* what a handler returns: {output, code}, the body kept as the JSON object
Response(handler, params, body, code) ==
    [handler |-> handler, params |-> params, body |-> body, code |-> code]

\* the handler returns without calling a method of the manager
NoCall ==
    /\ call' = [op |-> "nocall"]
    /\ ret' = FALSE
    /\ trace' = <<>>
    /\ out_data' = <<>>
    /\ UNCHANGED <<bench, buses, known_devices, last_error, now, device, prior>>

\* the 400 answer of a handler that misses a parameter
Refusal(handler, params, error) ==
    /\ NoCall
    /\ http' = Response(handler, params, [success |-> FALSE, error |-> error], 400)

handleInitBus(params) ==
    IF Missing(params, {"bus_id", "sda_pin", "scl_pin"})
    THEN Refusal("handleInitBus", params, "Missing required parameters")
    ELSE LET bus_id == U8(toInt(Param(params, "bus_id")))
             sda_pin == U8(toInt(Param(params, "sda_pin")))
             scl_pin == U8(toInt(Param(params, "scl_pin")))
             frequency == IF "frequency" \in DOMAIN params
                          THEN U32(toInt(Param(params, "frequency"))) ELSE 100000
             body == [bus_id |-> bus_id, sda_pin |-> sda_pin, scl_pin |-> scl_pin,
                      frequency |-> frequency]
         IN /\ initBus(bus_id, sda_pin, scl_pin, frequency)
            /\ http' = Response("handleInitBus", params,
                    IF ret'
                    THEN [success |-> TRUE] @@ body
                    ELSE [success |-> FALSE, error |-> getErrorString(last_error')] @@ body,
                    IF ret' THEN 200 ELSE 500)

handleScanBus(params) ==
    IF Missing(params, {"bus_id"})
    THEN Refusal("handleScanBus", params, "Missing bus_id parameter")
    ELSE LET bus_id == U8(toInt(Param(params, "bus_id")))
         IN /\ scanBus(bus_id)
            /\ LET success == (last_error' = SUCCESS)
                   body == [success |-> success, bus_id |-> bus_id,
                            device_count |-> Len(ret'),
                            devices |-> [i \in 1..Len(ret') |->
                                [address |-> ret'[i], address_hex |-> Hex0x(ret'[i])]]]
               IN http' = Response("handleScanBus", params,
                    IF success THEN body
                    ELSE [error |-> getErrorString(last_error')] @@ body,
                    IF success THEN 200 ELSE 500)

handleDeviceInfo(params) ==
    /\ NoCall
    /\ http' = Response("handleDeviceInfo", params,
            [success |-> TRUE, device_count |-> Len(known_devices),
             devices |-> [i \in 1..Len(known_devices) |->
                [bus_id |-> known_devices[i].bus_id,
                 address |-> known_devices[i].address,
                 address_hex |-> Hex0x(known_devices[i].address),
                 name |-> known_devices[i].device_name,
                 responsive |-> known_devices[i].responsive,
                 last_seen |-> known_devices[i].last_seen]]],
            200)

handleReadRegister(params) ==
    IF Missing(params, {"bus_id", "device_addr", "reg_addr"})
    THEN Refusal("handleReadRegister", params, "Missing required parameters")
    ELSE LET bus_id == U8(toInt(Param(params, "bus_id")))
             device_addr == U8(strtol(Param(params, "device_addr"), 16))
             reg_addr == U8(strtol(Param(params, "reg_addr"), 16))
             body == [bus_id |-> bus_id, device_addr |-> Hex0x(device_addr),
                      reg_addr |-> Hex0x(reg_addr)]
         IN /\ readRegister(bus_id, device_addr, reg_addr)
            /\ LET success == (last_error' = SUCCESS)
               IN http' = Response("handleReadRegister", params,
                    IF success
                    THEN [success |-> TRUE, value |-> ret', value_hex |-> Hex0x(ret')] @@ body
                    ELSE [success |-> FALSE, error |-> getErrorString(last_error')] @@ body,
                    IF success THEN 200 ELSE 500)

handleWriteRegister(params) ==
    IF Missing(params, {"bus_id", "device_addr", "reg_addr", "value"})
    THEN Refusal("handleWriteRegister", params, "Missing required parameters")
    ELSE LET bus_id == U8(toInt(Param(params, "bus_id")))
             device_addr == U8(strtol(Param(params, "device_addr"), 16))
             reg_addr == U8(strtol(Param(params, "reg_addr"), 16))
             value == U8(strtol(Param(params, "value"), 16))
             body == [bus_id |-> bus_id, device_addr |-> Hex0x(device_addr),
                      reg_addr |-> Hex0x(reg_addr), value |-> Hex0x(value)]
         IN /\ writeRegister(bus_id, device_addr, reg_addr, value)
            /\ http' = Response("handleWriteRegister", params,
                    IF ret'
                    THEN [success |-> TRUE] @@ body
                    ELSE [success |-> FALSE, error |-> getErrorString(last_error')] @@ body,
                    IF ret' THEN 200 ELSE 500)

handlePingDevice(params) ==
    IF Missing(params, {"bus_id", "device_addr"})
    THEN Refusal("handlePingDevice", params, "Missing required parameters")
    ELSE LET bus_id == U8(toInt(Param(params, "bus_id")))
             device_addr == U8(strtol(Param(params, "device_addr"), 16))
         IN /\ isDevicePresent(bus_id, device_addr)
            /\ http' = Response("handlePingDevice", params,
                    [success |-> TRUE, bus_id |-> bus_id,
                     device_addr |-> Hex0x(device_addr), present |-> ret'],
                    200)

\* the handler's array: uint8_t data[64]
StackBuffer == Buf(<<>>)

handleReadBytes(params) ==
    IF Missing(params, {"bus_id", "device_addr", "reg_addr", "length"})
    THEN Refusal("handleReadBytes", params, "Missing required parameters")
    ELSE LET bus_id == U8(toInt(Param(params, "bus_id")))
             device_addr == U8(strtol(Param(params, "device_addr"), 16))
             reg_addr == U8(strtol(Param(params, "reg_addr"), 16))
             length == U8(toInt(Param(params, "length")))
             body == [bus_id |-> bus_id, device_addr |-> Hex0x(device_addr),
                      reg_addr |-> Hex0x(reg_addr), length |-> length]
         IN IF length > 64
            THEN Refusal("handleReadBytes", params, "Length too large (max 64 bytes)")
            ELSE /\ readBytes(bus_id, device_addr, reg_addr, StackBuffer, length)
                 /\ http' = Response("handleReadBytes", params,
                        IF ret'
                        THEN [success |-> TRUE,
                              data |-> [i \in 1..length |-> Hex0x(out_data'[i])]] @@ body
                        ELSE [success |-> FALSE,
                              error |-> getErrorString(last_error')] @@ body,
                        IF ret' THEN 200 ELSE 500)

\* String::indexOf(c, from): the 0-based index of the first c at or after from, -1 when none
IndexOf(str, c, from) ==
    LET hits == {i \in from..(Len(str) - 1) : str[i + 1] = c}
    IN IF hits = {} THEN -1 ELSE CHOOSE i \in hits : \A j \in hits : i <= j
\* String::substring(from, to): the characters at the 0-based indices from..to-1
Substring(str, from, to) == SubSeq(str, from + 1, to)
RECURSIVE DropTrailingSpace(_)
DropTrailingSpace(str) ==
    IF str # <<>> /\ IsSpace(str[Len(str)])
    THEN DropTrailingSpace(SubSeq(str, 1, Len(str) - 1)) ELSE str
\* fault: the token is not trimmed
Trim_None(str) == str
\* String::trim()
Trim(str) == DropTrailingSpace(SkipSpace(str))

RECURSIVE parseBytes(_, _, _, _)
\* handleWriteBytes, lines 860-872: the loop over the comma-separated tokens,
\* entered with the values of start and end and the bytes pushed so far
parseBytes(data_str, start, end, data_bytes) ==
    IF ~(end >= 0 \/ start < Len(data_str)) THEN data_bytes
    ELSE LET byte_str == Trim(IF end >= 0 THEN Substring(data_str, start, end)
                              ELSE Substring(data_str, start, Len(data_str)))
             pushed == IF Len(byte_str) > 0
                       THEN Append(data_bytes, U8(strtol(byte_str, 16)))
                       ELSE data_bytes
         IN IF end < 0 THEN pushed
            ELSE parseBytes(data_str, end + 1, IndexOf(data_str, ",", end + 1), pushed)

handleWriteBytes(params) ==
    IF Missing(params, {"bus_id", "device_addr", "reg_addr", "data"})
    THEN Refusal("handleWriteBytes", params, "Missing required parameters")
    ELSE LET bus_id == U8(toInt(Param(params, "bus_id")))
             device_addr == U8(strtol(Param(params, "device_addr"), 16))
             reg_addr == U8(strtol(Param(params, "reg_addr"), 16))
             data_str == Param(params, "data")
             data_bytes == parseBytes(data_str, 0, IndexOf(data_str, ",", 0), <<>>)
             body == [bus_id |-> bus_id, device_addr |-> Hex0x(device_addr),
                      reg_addr |-> Hex0x(reg_addr), bytes_written |-> Len(data_bytes)]
         IN IF data_bytes = <<>>
            THEN Refusal("handleWriteBytes", params, "No valid data bytes provided")
            ELSE /\ writeBytes(bus_id, device_addr, reg_addr, Buf(data_bytes), Len(data_bytes))
                 /\ http' = Response("handleWriteBytes", params,
                        IF ret'
                        THEN [success |-> TRUE] @@ body
                        ELSE [success |-> FALSE,
                              error |-> getErrorString(last_error')] @@ body,
                        IF ret' THEN 200 ELSE 500)

\* ------------------------------------------------------------- destructor
\* ~FlexibleI2C, line 141: the keys of the map, in the order the loop visits them
busesInOrder ==
    LET nth(n) == CHOOSE b \in DOMAIN buses :
                    Cardinality({c \in DOMAIN buses : c < b}) = n - 1
    IN [n \in 1..Cardinality(DOMAIN buses) |-> nth(n)]

\* ~FlexibleI2C, line 143: config.initialized && config.wire_instance
Releasable(b) == buses[b].initialized /\ buses[b].wire_instance # nullptr

\* fault: the loop is left after the first bus
toRelease_FirstOnly ==
    SelectSeq(SubSeq(busesInOrder, 1, IF Len(busesInOrder) > 0 THEN 1 ELSE 0), Releasable)

\* ~FlexibleI2C, lines 141-146: the buses whose handle is ended, in order
toRelease == SelectSeq(busesInOrder, Releasable)

\* ~FlexibleI2C(): the object is gone afterwards, no call follows
destroy ==
    /\ call' = [op |-> "destroy"]
    /\ trace' = [n \in 1..Len(toRelease) |->
                    Ev(buses[toRelease[n]].wire_instance, "end", <<>>, 0)]
    /\ ret' = FALSE
    /\ out_data' = <<>>
    /\ UNCHANGED <<bench, buses, known_devices, last_error, now, device, prior>>

\* --------------------------------------------------------- specification
\* FlexibleI2C::FlexibleI2C(): last_error(SUCCESS), empty map and vector
Init ==
    /\ bench \in Benches
    /\ buses = <<>>
    /\ known_devices = <<>>
    /\ last_error = SUCCESS
    /\ now = 0
    /\ device = <<>>
    /\ prior = [op |-> "none"]
    /\ call = [op |-> "idle"]
    /\ ret = FALSE
    /\ trace = <<>>
    /\ out_data = <<>>
    /\ http = NoHttp

\* no call is in progress and the result of the last one has been taken
Idle == call.op = "idle"

\* the caller takes the result of the call; the next call starts from here
Return ==
    /\ ~Idle
    /\ call.op # "destroy"
    /\ prior' = IF call.op \in {"writeRegister", "writeRegister16"} /\ ret = TRUE
                THEN call ELSE [op |-> "none"]
    /\ call' = [op |-> "idle"]
    /\ ret' = FALSE
    /\ trace' = <<>>
    /\ out_data' = <<>>
    /\ http' = NoHttp
    /\ UNCHANGED <<bench, buses, known_devices, last_error, now, device>>

\* a method is called directly, on a bench that is not driven through the handlers
Direct == Idle /\ bench # "web" /\ http' = NoHttp
\* a request comes in
Served == Idle /\ bench = "web"

\* the requests handed to the handlers: complete ones, and each of them with
\* one required parameter left out, or with none at all
Without(params, name) == [n \in DOMAIN params \ {name} |-> params[n]]
Incomplete(requests, names) ==
    {Without(r, n) : r \in requests, n \in names} \cup {<<>>}

InitRequests ==
    LET base == [bus_id |-> <<"0">>, sda_pin |-> <<"2", "1">>, scl_pin |-> <<"2", "2">>]
    IN {base, [base EXCEPT !.bus_id = <<"1">>], [base EXCEPT !.bus_id = <<"2">>],
        [frequency |-> <<"4", "0", "0", "0", "0", "0">>] @@ base}
ScanRequests == {[bus_id |-> <<"0">>], [bus_id |-> <<"1">>]}
\* bus 0, device 0x48, register 0x00
RegisterRequest ==
    [bus_id |-> <<"0">>, device_addr |-> <<"0", "x", "4", "8">>, reg_addr |-> <<"0", "x", "0", "0">>]
ReadRegisterRequests == {RegisterRequest}
WriteRegisterRequests == {[value |-> <<"0", "x", "F", "F">>] @@ RegisterRequest}
PingRequests ==
    {[bus_id |-> <<"0">>, device_addr |-> <<"0", "x", "4", "8">>],
     [bus_id |-> <<"0">>, device_addr |-> <<"0", "x", "8", "0">>]}
\* lengths at and around the handler's limit, and two beyond eight bits
ReadBytesRequests ==
    {[length |-> n] @@ RegisterRequest :
        n \in {<<"2">>, <<"6", "4">>, <<"6", "5">>, <<"2", "5", "6">>, <<"2", "5", "7">>}}
\* "0x01, 0x02,,0x03"; the empty string; ", ,"; "0x01, ,0x02,"; " 0x0A "
WriteBytesRequests ==
    {[data |-> d] @@ RegisterRequest :
        d \in {<<"0", "x", "0", "1", ",", " ", "0", "x", "0", "2", ",", ",", "0", "x", "0", "3">>,
               <<>>,
               <<",", " ", ",">>,
               <<"0", "x", "0", "1", ",", " ", ",", "0", "x", "0", "2", ",">>,
               <<" ", "0", "x", "0", "A", " ">>}}

Next ==
    \/ Direct /\ \E b \in InitBusIds, a \in InitArgs : initBus(b, a[1], a[2], a[3])
    \/ Direct /\ \E b \in BusIds : scanBus(b)
    \/ Direct /\ \E b \in CallBusIds, a \in AddrInputs : isDevicePresent(b, a)
    \/ Direct /\ \E c \in RegisterCalls : \E d \in PayloadFor(c, ByteInputs) :
            writeRegister(c.bus_id, c.address, c.reg_address, d)
    \/ Direct /\ \E c \in RegisterCalls : \E d \in PayloadFor(c, WordInputs) :
            writeRegister16(c.bus_id, c.address, c.reg_address, d)
    \/ Direct /\ \E c \in RegisterCalls : \E w \in WriteBuffersFor(c) :
            writeBytes(c.bus_id, c.address, c.reg_address, w.data, w.length)
    \/ Direct /\ \E c \in RegisterCalls : readRegister(c.bus_id, c.address, c.reg_address)
    \/ Direct /\ \E c \in RegisterCalls : readRegister16(c.bus_id, c.address, c.reg_address)
    \/ Direct /\ \E c \in RegisterCalls : \E w \in ReadBuffersFor(c) :
            readBytes(c.bus_id, c.address, c.reg_address, w.data, w.length)
    \/ Direct /\ \E b \in CallBusIds, a \in AddrInputs : beginTransmission(b, a)
    \/ Direct /\ \E b \in CallBusIds, t \in {0, 1} : endTransmission(b, t)
    \/ Direct /\ \E b \in CallBusIds, a \in AddrInputs : \E q \in RawRequestsFor(b, a) :
            requestFrom(b, a, q.quantity, q.stop)
    \/ Idle /\ http' = NoHttp /\ destroy
    \/ Served /\ \E r \in InitRequests \cup Incomplete(InitRequests, {"bus_id", "sda_pin", "scl_pin"}) :
            handleInitBus(r)
    \/ Served /\ \E r \in ScanRequests \cup Incomplete(ScanRequests, {"bus_id"}) :
            handleScanBus(r)
    \/ Served /\ handleDeviceInfo(<<>>)
    \/ Served /\ \E r \in ReadRegisterRequests
            \cup Incomplete(ReadRegisterRequests, {"bus_id", "device_addr", "reg_addr"}) :
            handleReadRegister(r)
    \/ Served /\ \E r \in WriteRegisterRequests
            \cup Incomplete(WriteRegisterRequests, {"bus_id", "device_addr", "reg_addr", "value"}) :
            handleWriteRegister(r)
    \/ Served /\ \E r \in PingRequests \cup Incomplete(PingRequests, {"bus_id", "device_addr"}) :
            handlePingDevice(r)
    \/ Served /\ \E r \in ReadBytesRequests
            \cup Incomplete(ReadBytesRequests, {"bus_id", "device_addr", "reg_addr", "length"}) :
            handleReadBytes(r)
    \/ Served /\ \E r \in WriteBytesRequests
            \cup Incomplete(WriteBytesRequests, {"bus_id", "device_addr", "reg_addr", "data"}) :
            handleWriteBytes(r)
    \/ Return

Spec == Init /\ [][Next]_vars

\* ------------------------------------------------------------- properties
\* The properties speak of the state a call leaves: `call` names the call,
\* `ret`, `trace` and `out_data` hold what it returned and did; in an action
\* property the unprimed registry and directory are those before the call.

RegisterOps == {"writeRegister", "writeRegister16", "writeBytes",
                "readRegister", "readRegister16", "readBytes"}
\* the call returned its failure value: 0 for the register reads, false otherwise
Failed == IF call.op \in {"readRegister", "readRegister16"} THEN ret = 0 ELSE ret = FALSE
\* the call invoked no driver primitive
NoPrimitive == WireCalls(trace) = <<>>
\* the wire a bus id stands for
WireOf(bus_id) == IF bus_id = 0 THEN Wire ELSE Wire1

\* C1: initBus with a bus id above 1 returns false, leaves INVALID_PARAMETERS
\* as the last error, does not call begin and leaves the bus registry as it
\* was; so no bus id outside {0, 1} is ever a key of the registry.
C1_BusIdBeyondRejected ==
    /\ [][(call'.op = "initBus" /\ call'.bus_id > 1) =>
            /\ ret' = FALSE
            /\ last_error' = INVALID_PARAMETERS
            /\ trace' = <<>>
            /\ buses' = buses]_vars
    /\ [](DOMAIN buses \subseteq {0, 1})

C1_Witness ==
    /\ call.op = "initBus" /\ call.bus_id = 255
    /\ ret = FALSE /\ last_error = INVALID_PARAMETERS
    /\ DOMAIN buses = {0, 1}

\* C2: once a bus is initialized, initBus on it, with any pins and frequency,
\* returns true without calling begin and leaves the stored pins, frequency,
\* handle and initialized flag of every bus as they were.
C2_InitBusIdempotent ==
    [][(call'.op = "initBus" /\ isBusInitialized(call'.bus_id)) =>
            /\ ret' = TRUE
            /\ trace' = <<>>
            /\ buses' = buses]_vars

C2_Witness ==
    /\ call.op = "initBus" /\ ret = TRUE /\ trace = <<>>
    /\ isBusInitialized(call.bus_id)
    /\ buses[call.bus_id].sda_pin # call.sda_pin
    /\ buses[call.bus_id].frequency # call.frequency

\* initBus called begin, and begin answered false
BeginFailed ==
    /\ call.op = "initBus"
    /\ Len(trace) = 1 /\ trace[1].fn = "begin" /\ trace[1].res = 0

\* C3: when begin fails for a valid bus id that is not initialized, initBus
\* returns false with OTHER_ERROR and the bus stays absent (no registry entry,
\* isBusInitialized false, getBus null); and initBus on a valid bus id that is
\* not initialized always calls begin on that bus's wire, so a later attempt
\* tries the bring-up again.
C3_FailedBringUpLeavesBusAbsent ==
    /\ [](BeginFailed =>
            /\ ret = FALSE
            /\ last_error = OTHER_ERROR
            /\ call.bus_id \notin DOMAIN buses
            /\ ~isBusInitialized(call.bus_id)
            /\ getBus(call.bus_id) = nullptr)
    /\ [][(call'.op = "initBus" /\ call'.bus_id \in {0, 1}
            /\ ~isBusInitialized(call'.bus_id)) =>
            trace' = <<Ev(WireOf(call'.bus_id), "begin",
                          <<call'.sda_pin, call'.scl_pin, call'.frequency>>,
                          IF ret' THEN 1 ELSE 0)>>]_vars

C3_Witness ==
    /\ BeginFailed /\ ret = FALSE /\ last_error = OTHER_ERROR
    /\ call.bus_id = 1 /\ DOMAIN buses = {0}

\* C4: a register operation on a bus that is not initialized fails with
\* BUS_NOT_INITIALIZED as the last error, whatever the address and buffer are,
\* and invokes no driver primitive.
C4_UninitializedBusRejected ==
    (call.op \in RegisterOps /\ ~isBusInitialized(call.bus_id)) =>
        /\ Failed
        /\ last_error = BUS_NOT_INITIALIZED
        /\ NoPrimitive

\* a writeBytes on a bus that is not initialized, with a good address and buffer
C4_Witness ==
    /\ call.op = "writeBytes" /\ ~isBusInitialized(call.bus_id)
    /\ call.bus_id \in {0, 1} /\ call.address \in 1..127
    /\ ~call.data.null /\ call.length > 0
    /\ ret = FALSE /\ NoPrimitive
    /\ last_error = INVALID_PARAMETERS

\* C5: on an initialized bus, a register operation or isDevicePresent with
\* address 0 or above 127 fails with INVALID_PARAMETERS and invokes no driver
\* primitive; with an address in 1..127 (and, for the byte operations, a buffer
\* that is neither null nor empty) it opens a transmission to that address.
C5_AddressRange ==
    (call.op \in RegisterOps \cup {"isDevicePresent"} /\ isBusInitialized(call.bus_id)) =>
        IF call.address = 0 \/ call.address > 127
        THEN Failed /\ last_error = INVALID_PARAMETERS /\ NoPrimitive
        ELSE \/ /\ call.op \in {"writeBytes", "readBytes"}
                /\ (call.data.null \/ call.length = 0)
             \/ /\ trace # <<>>
                /\ trace[1] = evBeginTransmission(getBus(call.bus_id), call.address)

C5_Witness ==
    /\ call.op = "readRegister16" /\ isBusInitialized(call.bus_id)
    /\ call.address = 128
    /\ ret = 0 /\ last_error = INVALID_PARAMETERS /\ trace = <<>>

\* addresses whose probe the trace shows acknowledged
Acked(t) ==
    {t[j].args[1] : j \in {i \in 1..(Len(t) - 1) :
        /\ t[i].fn = "beginTransmission"
        /\ t[i + 1].fn = "endTransmission"
        /\ t[i + 1].res = 0}}
\* the call was a scanBus that ran its sweep
ScanDone == call.op = "scanBus" /\ isBusInitialized(call.bus_id)

\* C6: after a scanBus of an initialized bus b, a record on b is responsive
\* exactly when its address acknowledged during the scan; every address that
\* acknowledged has a record on b that is responsive with last_seen a time
\* read during the scan, the record it had before (at the same place, an unresponsive one
\* included) or else a new one named "Unknown Device"; and no other record is
\* added.
C6_ScanSetsResponsive ==
    [][ScanDone' =>
        LET b == call'.bus_id
            acked == Acked(trace')
            old == known_devices
            new == known_devices'
        IN /\ \A i \in 1..Len(new) :
                new[i].bus_id = b => (new[i].responsive <=> new[i].address \in acked)
           /\ \A a \in acked : \E i \in 1..Len(new) :
                /\ new[i].address = a /\ new[i].bus_id = b
                /\ new[i].responsive /\ new[i].last_seen \in now..now'
                /\ IF Matches(old, a, b) # {}
                   THEN i \in Matches(old, a, b)
                        /\ new[i].device_name = old[i].device_name
                   ELSE i > Len(old) /\ new[i].device_name = "Unknown Device"
           /\ Len(new) = Len(old) + Cardinality({a \in acked : Matches(old, a, b) = {}})
    ]_vars

\* a scan at a later time that one device of the bus answered and another did not
C6_Witness ==
    /\ ScanDone /\ now > 0
    /\ \E i, j \in 1..Len(known_devices) :
        /\ known_devices[i].bus_id = call.bus_id
        /\ known_devices[i].responsive /\ known_devices[i].last_seen = now
        /\ known_devices[i].address \in Acked(trace)
        /\ known_devices[j].bus_id = call.bus_id
        /\ ~known_devices[j].responsive

IsLostCall(e) == e.fn = "onDeviceLost"
\* the device-lost callbacks in a trace
LostCalls(t) == SelectSeq(t, IsLostCall)

\* C7: a scanBus of an initialized bus b fires the device-lost callback
\* exactly once for each record on b that was responsive before the scan and
\* whose address did not acknowledge, and for nothing else (not for an address
\* without a record, not for a record already unresponsive, not for a record of
\* the other bus); no other call fires it.
C7_LostOncePerTransition ==
    [][call'.op # "idle" =>
        LET lost == LostCalls(trace')
            b == call'.bus_id
            old == known_devices
            due == IF ScanDone'
                   THEN {i \in 1..Len(old) :
                            /\ old[i].bus_id = b
                            /\ old[i].responsive
                            /\ old[i].address \notin Acked(trace')}
                   ELSE {}
        IN /\ \A i \in due :
                Cardinality({k \in 1..Len(lost) :
                                lost[k].args = <<b, old[i].address>>}) = 1
           /\ \A k \in 1..Len(lost) :
                \E i \in due : lost[k].args = <<b, old[i].address>>
           /\ \A i \in 1..Len(old) :
                (old[i].responsive /\ ~known_devices'[i].responsive) <=> i \in due
    ]_vars

\* a scan that lost one device while another record of the bus, lost before,
\* is absent again and gets no callback
C7_Witness ==
    /\ ScanDone
    /\ Len(LostCalls(trace)) = 1
    /\ \E i \in 1..Len(known_devices) :
        /\ known_devices[i].bus_id = call.bus_id
        /\ ~known_devices[i].responsive
        /\ known_devices[i].address \notin Acked(trace)
        /\ LostCalls(trace)[1].args # <<call.bus_id, known_devices[i].address>>

\* the number of bytes the read call asked for
Wanted == CASE call.op = "readBytes" -> call.length
            [] call.op = "readRegister" -> 1
            [] call.op = "readRegister16" -> 2
\* the call made a request that returned fewer or more bytes than it asked for
ShortRead ==
    /\ call.op \in {"readBytes", "readRegister", "readRegister16"}
    /\ \E k \in 1..Len(trace) :
        trace[k].fn = "requestFrom" /\ trace[k].res # Wanted

\* C8: when the byte count the request returns differs from the length asked
\* for, readBytes returns false with TIMEOUT, takes no byte and writes nothing
\* to the output buffer; readRegister and readRegister16 return 0 with TIMEOUT.
C8_NoPartialRead ==
    ShortRead =>
        /\ Failed
        /\ last_error = TIMEOUT
        /\ out_data = <<>>
        /\ \A k \in 1..Len(trace) : trace[k].fn # "read"

C8_Witness ==
    /\ call.op = "readBytes" /\ call.length = 2
    /\ \E k \in 1..Len(trace) : trace[k].fn = "requestFrom" /\ trace[k].res = 1
    /\ ret = FALSE /\ last_error = TIMEOUT /\ out_data = <<>>

\* C9: writeBytes and readBytes with a null buffer or with length 0 return
\* false with INVALID_PARAMETERS and invoke no driver primitive.
C9_NullOrEmptyBuffer ==
    (call.op \in {"writeBytes", "readBytes"} /\ (call.data.null \/ call.length = 0)) =>
        /\ ret = FALSE
        /\ last_error = INVALID_PARAMETERS
        /\ NoPrimitive
        /\ out_data = <<>>

\* an empty array handed to writeBytes for a good address on an initialized bus
C9_Witness ==
    /\ call.op = "writeBytes" /\ isBusInitialized(call.bus_id)
    /\ call.address \in 1..127
    /\ ~call.data.null /\ call.length = 0
    /\ ret = FALSE /\ last_error = INVALID_PARAMETERS /\ trace = <<>>

\* the call is a readRegister of the register the call before wrote, on the
\* device double
ReadBack ==
    /\ prior.op = "writeRegister"
    /\ call.op = "readRegister"
    /\ call.bus_id = prior.bus_id
    /\ call.address = prior.address
    /\ call.reg_address = prior.reg_address
    /\ IsDouble(getBus(prior.bus_id), prior.address)

\* C10: with the storing device double, a writeRegister(b, a, r, v) that
\* succeeded, followed by readRegister(b, a, r), returns v with SUCCESS.
C10_RegisterRoundTrip ==
    ReadBack => ret = prior.data /\ last_error = SUCCESS

C10_Witness ==
    /\ ReadBack
    /\ prior.data = 255 /\ prior.reg_address = 0
    /\ ret = 255 /\ last_error = SUCCESS

\* the methods that return a boolean
BoolOps == {"initBus", "isDevicePresent", "writeRegister", "writeRegister16",
            "writeBytes", "readBytes", "beginTransmission", "endTransmission",
            "requestFrom"}

\* C11: every public operation sets the last error on each of its paths, so
\* the last error read right after a call reports the outcome of that call:
\* after a call that returns a boolean it is SUCCESS exactly when the call
\* returned true, and after scanBus it is SUCCESS or BUS_NOT_INITIALIZED.
C11_LastErrorReportsCall ==
    /\ call.op \in BoolOps => (ret = TRUE <=> last_error = SUCCESS)
    /\ call.op = "scanBus" => last_error \in {SUCCESS, BUS_NOT_INITIALIZED}

\* initBus on an initialized bus returns true and the last error is still the
\* NACK_ADDRESS an earlier call left
C11_Witness ==
    /\ call.op = "initBus" /\ ret = TRUE /\ trace = <<>>
    /\ last_error = NACK_ADDRESS

\* the methods whose result is the status of the close
CloseOps == {"writeRegister", "writeRegister16", "writeBytes", "endTransmission"}
ReadOps == {"readRegister", "readRegister16", "readBytes"}
\* the status the close of the call's transmission returned, -1 without a close
CloseStatus ==
    LET closes == {k \in 1..Len(trace) : trace[k].fn = "endTransmission"}
    IN IF closes = {} THEN -1 ELSE trace[CHOOSE k \in closes : TRUE].res

\* C12: after a write operation or endTransmission whose close returned
\* status s, the last error is SUCCESS with a true result for s = 0 and
\* TIMEOUT, NACK_ADDRESS, NACK_DATA, OTHER_ERROR with a false result for
\* s = 1, 2, 3, 4; a read whose address phase closed with s # 0 fails with the
\* same error; after each write operation and endTransmission the result is
\* true exactly when the last error is SUCCESS; and the last error is always
\* one of the seven codes.
C12_StatusMapping ==
    /\ (call.op \in CloseOps /\ CloseStatus >= 0) =>
            /\ last_error = <<SUCCESS, TIMEOUT, NACK_ADDRESS, NACK_DATA,
                              OTHER_ERROR>>[CloseStatus + 1]
            /\ ret = (CloseStatus = 0)
    /\ (call.op \in ReadOps /\ CloseStatus > 0) =>
            /\ last_error = <<TIMEOUT, NACK_ADDRESS, NACK_DATA, OTHER_ERROR>>[CloseStatus]
            /\ Failed
    /\ call.op \in CloseOps => (ret = TRUE <=> last_error = SUCCESS)
    /\ last_error \in {SUCCESS, TIMEOUT, NACK_ADDRESS, NACK_DATA, OTHER_ERROR,
                       BUS_NOT_INITIALIZED, INVALID_PARAMETERS}

C12_Witness ==
    /\ call.op = "writeRegister16" /\ CloseStatus = 3
    /\ last_error = NACK_DATA /\ ret = FALSE

\* C13: scanBus on a bus that is not initialized returns an empty list with
\* BUS_NOT_INITIALIZED as the last error, probes nothing, fires no callback
\* and leaves every device record as it was.
C13_ScanUninitializedBus ==
    [][(call'.op = "scanBus" /\ ~isBusInitialized(call'.bus_id)) =>
            /\ ret' = <<>>
            /\ last_error' = BUS_NOT_INITIALIZED
            /\ trace' = <<>>
            /\ known_devices' = known_devices]_vars

\* a scan of the bus that is not initialized, with records of the other bus known
C13_Witness ==
    /\ call.op = "scanBus" /\ call.bus_id = 1 /\ ~isBusInitialized(1)
    /\ ret = <<>> /\ last_error = BUS_NOT_INITIALIZED /\ trace = <<>>
    /\ known_devices # <<>>

IsProbeOpen(e) == e.fn = "beginTransmission"
IsProbeClose(e) == e.fn = "endTransmission"

\* C14: a scan of an initialized bus opens and closes a transmission to each
\* address 1..126 once, in ascending order, and to no other address; it
\* returns the addresses that acknowledged, ascending and without duplicates,
\* with SUCCESS as the last error, also when none acknowledged. Address 127 is
\* never probed, although isDevicePresent on 127 opens a transmission to it.
C14_SweepRange ==
    /\ ScanDone =>
        LET opens == SelectSeq(trace, IsProbeOpen)
            closes == SelectSeq(trace, IsProbeClose)
        IN /\ Len(opens) = 126 /\ Len(closes) = 126
           /\ \A a \in 1..126 : opens[a].args = <<a>>
           /\ {ret[i] : i \in 1..Len(ret)} = Acked(trace)
           /\ \A i, j \in 1..Len(ret) : i < j => ret[i] < ret[j]
           /\ \A i \in 1..Len(ret) : ret[i] \in 1..126
           /\ last_error = SUCCESS
    /\ (call.op = "isDevicePresent" /\ isBusInitialized(call.bus_id)
            /\ call.address = 127) =>
        trace[1] = evBeginTransmission(getBus(call.bus_id), 127)

\* a scan in which the first and the last address of the sweep acknowledged
C14_Witness ==
    /\ ScanDone /\ ret = <<1, 126>> /\ last_error = SUCCESS

\* a scan in which no address acknowledged, on a bus with a device at 127
C14_WitnessNone ==
    /\ ScanDone /\ ret = <<>> /\ last_error = SUCCESS /\ bench = "flaky"

\* C15: only scanBus changes the device directory, and only records of the
\* bus it scans: every other call leaves known_devices as it was, and
\* scanBus(b) leaves every record of another bus as it was and adds records
\* of bus b only.
C15_DirectoryFrame ==
    [][/\ call'.op # "scanBus" => known_devices' = known_devices
       /\ call'.op = "scanBus" =>
            /\ Len(known_devices') >= Len(known_devices)
            /\ \A i \in 1..Len(known_devices) :
                known_devices[i].bus_id # call'.bus_id =>
                    known_devices'[i] = known_devices[i]
            /\ \A i \in (Len(known_devices) + 1)..Len(known_devices') :
                known_devices'[i].bus_id = call'.bus_id]_vars

\* isDevicePresent got an acknowledgement from a device whose record says
\* it is not responsive
C15_Witness ==
    /\ call.op = "isDevicePresent" /\ ret = TRUE
    /\ \E i \in 1..Len(known_devices) :
        /\ known_devices[i].bus_id = call.bus_id
        /\ known_devices[i].address = call.address
        /\ ~known_devices[i].responsive

\* C16: the device directory holds at most one record for a (bus id,
\* address) pair, every record's address is in 1..127, and every record's bus
\* id is 0 or 1 and that bus is initialized.
C16_DirectoryInvariant ==
    /\ \A i, j \in 1..Len(known_devices) :
        (known_devices[i].bus_id = known_devices[j].bus_id
            /\ known_devices[i].address = known_devices[j].address) => i = j
    /\ \A i \in 1..Len(known_devices) :
        /\ known_devices[i].address \in 1..127
        /\ known_devices[i].bus_id \in {0, 1}
        /\ isBusInitialized(known_devices[i].bus_id)

\* the same address is known on both buses, and a scan has found it again
C16_Witness ==
    /\ ScanDone /\ ret # <<>>
    /\ \E i, j \in 1..Len(known_devices) :
        /\ known_devices[i].address = known_devices[j].address
        /\ known_devices[i].bus_id # known_devices[j].bus_id
        /\ known_devices[i].last_seen < known_devices[j].last_seen

\* the (bus id, address) keys of the records, in order
Keys(devices) == [i \in 1..Len(devices) |-> <<devices[i].bus_id, devices[i].address>>]
IsPrefix(p, q) == Len(p) <= Len(q) /\ SubSeq(q, 1, Len(p)) = p

\* C17: no call deletes or reorders device records: the list of (bus id,
\* address) keys before a call is a prefix of the list after it; and
\* getAllDevices is the whole list, in that order.
C17_DirectoryAppendOnly ==
    [][/\ IsPrefix(Keys(known_devices), Keys(known_devices'))
       /\ getAllDevices' = known_devices']_vars

\* a scan that kept a record it lost in front of one it found
C17_Witness ==
    /\ ScanDone /\ Len(LostCalls(trace)) = 1
    /\ Len(known_devices) = 2
    /\ ~known_devices[1].responsive /\ known_devices[2].responsive

\* C18: an initialized bus has a handle that is not null; the handle of bus 0
\* is always Wire and that of bus 1 always Wire1; an initialized bus stays
\* initialized with the same handle after every call; getBus(b) is not null
\* exactly when isBusInitialized(b).
C18_HandlesStable ==
    /\ [](\A b \in DOMAIN buses :
            buses[b].initialized =>
                /\ buses[b].wire_instance # nullptr
                /\ buses[b].wire_instance = (IF b = 0 THEN Wire ELSE Wire1))
    /\ [](\A b \in InitBusIds : getBus(b) # nullptr <=> isBusInitialized(b))
    /\ [][\A b \in InitBusIds :
            isBusInitialized(b) => (isBusInitialized(b)' /\ getBus(b)' = getBus(b))]_vars

\* both buses are initialized and a bring-up of bus 1 has just been asked again
C18_Witness ==
    /\ call.op = "initBus" /\ call.bus_id = 1
    /\ getBus(0) = Wire /\ getBus(1) = Wire1
    /\ ret = TRUE /\ trace = <<>>

\* the number of end() calls on a wire in the trace
Ended(wire) == Cardinality({k \in 1..Len(trace) : trace[k] = Ev(wire, "end", <<>>, 0)})

\* C19: the destructor calls end exactly once on the handle of every
\* initialized bus and on no other handle, and does nothing else; a bus whose
\* bring-up never succeeded is not initialized, so its handle is not ended.
C19_TeardownReleasesOnce ==
    call.op = "destroy" =>
        /\ \A wire \in {Wire, Wire1} :
            Ended(wire) = IF \E b \in {0, 1} : isBusInitialized(b) /\ getBus(b) = wire
                          THEN 1 ELSE 0
        /\ Len(trace) = Ended(Wire) + Ended(Wire1)

\* destruction with both buses initialized
C19_Witness ==
    /\ call.op = "destroy"
    /\ isBusInitialized(0) /\ isBusInitialized(1)
    /\ trace = <<Ev(Wire, "end", <<>>, 0), Ev(Wire1, "end", <<>>, 0)>>

\* destruction with bus 0 initialized and bus 1 not
C19_WitnessOne ==
    /\ call.op = "destroy"
    /\ isBusInitialized(0) /\ ~isBusInitialized(1)
    /\ trace = <<Ev(Wire, "end", <<>>, 0)>>

\* a request to the handler h came in without one of its required parameters
Lacking(r, h) == r.handler = h /\ \E n \in Required[h] : n \notin DOMAIN r.params
\* the handler answered 400 with success = false and the message, invoked no
\* primitive and left the registry, the directory and the last error alone
RefusedWith(message) ==
    /\ http'.code = 400
    /\ http'.body.success = FALSE
    /\ http'.body.error = message
    /\ call'.op = "nocall"
    /\ trace' = <<>>
    /\ UNCHANGED <<buses, known_devices, last_error>>

\* C20 as stated: every handler with required parameters answers a request
\* that misses one of them with status 400, success = false and the message
\* "Missing required parameters", before any bus primitive is invoked and
\* without changing the bus registry, the device directory or the last error.
C20_MissingParametersGeneric ==
    [][\A h \in DOMAIN Required :
        Lacking(http', h) => RefusedWith("Missing required parameters")]_vars

MissingText(h) ==
    IF h = "handleScanBus" THEN "Missing bus_id parameter"
    ELSE "Missing required parameters"

\* C20 amended: every handler with required parameters answers a request that
\* misses one of them with status 400, success = false and a missing-parameter
\* message, "Missing bus_id parameter" from the scan handler and "Missing
\* required parameters" from the six others, before any bus primitive is
\* invoked and without changing the registry, the directory or the last error.
C20_MissingParametersRefused ==
    [][\A h \in DOMAIN Required :
        Lacking(http', h) => RefusedWith(MissingText(h))]_vars

\* a write-bytes request without its data was refused while bus 0 was up,
\* a device was on record and the last error was a failure
C20_Witness ==
    /\ Lacking(http, "handleWriteBytes")
    /\ DOMAIN http.params = {"bus_id", "device_addr", "reg_addr"}
    /\ http.code = 400
    /\ isBusInitialized(0)
    /\ known_devices # <<>>
    /\ last_error # SUCCESS

\* a complete read-bytes request was answered
ReadBytesAnswered == http.handler = "handleReadBytes" /\ ~Lacking(http, "handleReadBytes")
\* the decimal length the request carries
RequestedLength == toInt(Param(http.params, "length"))

\* C21: a read-bytes request whose decimal length is greater than 64 is
\* answered with status 400 and no primitive is invoked; a request that is
\* accepted (status 200) has read exactly the requested number of bytes, and
\* that number is at most 64.
C21_LengthLimit ==
    ReadBytesAnswered =>
        /\ RequestedLength > 64 => (http.code = 400 /\ NoPrimitive)
        /\ http.code = 200 =>
                (RequestedLength <= 64 /\ Len(out_data) = RequestedLength)

\* a request for 257 bytes was accepted and answered with one byte
C21_Witness ==
    /\ ReadBytesAnswered
    /\ RequestedLength = 257
    /\ http.code = 200
    /\ Len(http.body.data) = 1

\* a handler answered after calling the method behind it
CoreCalled == http.handler # "none" /\ call.op \notin {"nocall", "idle"}
\* the method behind the handler failed: a method that returns bool returned
\* false, a method that returns a value left a last error other than SUCCESS;
\* for the presence probe, only the calls that validation turned away count
CoreFailed ==
    CASE call.op \in {"initBus", "writeRegister", "writeBytes", "readBytes"} -> ret = FALSE
      [] call.op \in {"readRegister", "scanBus"} -> last_error # SUCCESS
      [] call.op = "isDevicePresent" -> ret = FALSE /\ NoPrimitive
      [] OTHER -> FALSE

\* C22: whenever the method behind a request handler fails, validation
\* failures included, the response carries success = false, an error string
\* and a status other than 200; and a response has status 200 exactly when
\* its success field is true.
C22_StructuredFailure ==
    /\ (CoreCalled /\ CoreFailed) =>
            /\ http.body.success = FALSE
            /\ "error" \in DOMAIN http.body
            /\ http.code # 200
    /\ http.handler # "none" => (http.code = 200 <=> http.body.success = TRUE)

\* a ping on a bus that was never initialized was answered 200, success = true
C22_Witness ==
    /\ http.handler = "handlePingDevice"
    /\ call.op = "isDevicePresent"
    /\ ~isBusInitialized(call.bus_id)
    /\ last_error = BUS_NOT_INITIALIZED
    /\ http.code = 200
    /\ http.body.success = TRUE

\* a complete write-bytes request was answered
WriteBytesAnswered == http.handler = "handleWriteBytes" /\ ~Lacking(http, "handleWriteBytes")
RECURSIVE Ascending(_)
\* the members of a set of numbers in ascending order
Ascending(S) == IF S = {} THEN <<>> ELSE <<MinOf(S)>> \o Ascending(S \ {MinOf(S)})
\* the tokens of a comma-separated list, in order: the stretches between commas
Tokens(str) ==
    LET cuts == <<0>> \o Ascending({i \in 1..Len(str) : str[i] = ","}) \o <<Len(str) + 1>>
    IN [k \in 1..(Len(cuts) - 1) |-> SubSeq(str, cuts[k] + 1, cuts[k + 1] - 1)]
Blank(token) == \A i \in 1..Len(token) : IsSpace(token[i])
NotBlank(token) == ~Blank(token)
\* the bytes the list stands for: the value of every token that is not blank
ListedBytes(str) ==
    LET kept == SelectSeq(Tokens(str), NotBlank)
    IN [k \in 1..Len(kept) |-> strtol(kept[k], 16) % 256]

\* C23: the data parameter of a write-bytes request is read as a comma-separated
\* list whose empty and whitespace-only tokens are skipped, the other tokens
\* giving the bytes written in their order ("0x01, 0x02,,0x03" gives 1, 2, 3);
\* when no token is left the answer is 400 and no bus transaction is performed.
C23_DataList ==
    WriteBytesAnswered =>
        LET data_str == Param(http.params, "data")
            listed == ListedBytes(data_str)
        IN /\ listed = <<>> =>
                /\ http.code = 400
                /\ call.op = "nocall"
                /\ NoPrimitive
           /\ listed # <<>> =>
                /\ call.op = "writeBytes"
                /\ SubSeq(call.data.bytes, 1, call.length) = listed
                /\ http.body.bytes_written = Len(listed)
           /\ data_str = <<"0", "x", "0", "1", ",", " ", "0", "x", "0", "2",
                           ",", ",", "0", "x", "0", "3">> =>
                (call.op = "writeBytes" /\ call.data.bytes = <<1, 2, 3>> /\ call.length = 3)

\* "0x01, ,0x02," was written as the register address and the bytes 1, 2
C23_Witness ==
    /\ WriteBytesAnswered
    /\ Len(Tokens(Param(http.params, "data"))) = 4
    /\ http.code = 200
    /\ call.data.bytes = <<1, 2>>
    /\ Len(WireCalls(trace)) = 5

\* ", ," was answered 400
C23_WitnessEmpty ==
    /\ WriteBytesAnswered
    /\ Param(http.params, "data") = <<",", " ", ",">>
    /\ http.code = 400
    /\ http.body.error = "No valid data bytes provided"

\* the call is a register read that validation let through
ReadPassed ==
    /\ call.op \in ReadOps
    /\ isBusInitialized(call.bus_id)
    /\ call.address \in 1..127
    /\ call.op = "readBytes" => (~call.data.null /\ call.length # 0)

\* the primitives of the read in order: open(address), write(register), close
\* without stop; after a close that failed nothing more, with its status as
\* the last error; after a close that succeeded one request for `count` bytes
\* with stop, and then only read()
ReadOrder(count) ==
    LET w == WireCalls(trace)
    IN /\ w = trace
       /\ Len(w) >= 3
       /\ \A k \in 1..Len(w) : w[k].obj = WireOf(call.bus_id)
       /\ w[1].fn = "beginTransmission" /\ w[1].args = <<call.address>>
       /\ w[2].fn = "write" /\ w[2].args = <<call.reg_address>>
       /\ w[3].fn = "endTransmission" /\ w[3].args = <<0>>
       /\ IF w[3].res # 0
          THEN Len(w) = 3 /\ last_error = w[3].res /\ Failed
          ELSE /\ Len(w) >= 4
               /\ w[4].fn = "requestFrom" /\ w[4].args = <<call.address, count, 1>>
               /\ \A k \in 5..Len(w) : w[k].fn = "read"

\* C24 as stated: every register read that passes validation issues
\* open(address), write(register address), close without stop and then one
\* read request with stop for the expected byte count (1 for readRegister, 2
\* for readRegister16, length for readBytes); when the close of the address
\* phase returns a non-zero status no read request is issued and the last
\* error is that status.
C24_ReadOrderFullCount ==
    ReadPassed =>
        ReadOrder(CASE call.op = "readRegister" -> 1
                    [] call.op = "readRegister16" -> 2
                    [] call.op = "readBytes" -> call.length)

\* C24 amended: as above, the read request of readBytes being for its length
\* in eight bits (length mod 256).
C24_ReadOrder ==
    ReadPassed =>
        ReadOrder(CASE call.op = "readRegister" -> 1
                    [] call.op = "readRegister16" -> 2
                    [] call.op = "readBytes" -> call.length % 256)

\* readBytes for 257 bytes passed its address phase and requested one byte
C24_Witness ==
    /\ ReadPassed
    /\ call.op = "readBytes" /\ call.length = 257
    /\ Len(trace) >= 4
    /\ trace[3].res = 0
    /\ trace[4].args = <<call.address, 1, 1>>

\* a read whose address phase was refused with status 3 issued no request
C24_WitnessRefused ==
    /\ ReadPassed
    /\ Len(trace) = 3
    /\ trace[3].res = 3
    /\ last_error = NACK_DATA

WriteOps == {"writeRegister", "writeRegister16", "writeBytes"}
\* the call is a register write that validation let through
WritePassed ==
    /\ call.op \in WriteOps
    /\ isBusInitialized(call.bus_id)
    /\ call.address \in 1..127
    /\ call.op = "writeBytes" => (~call.data.null /\ call.length # 0)
\* the payload of the write, in the caller's order
Payload ==
    CASE call.op = "writeRegister" -> <<call.data>>
      [] call.op = "writeRegister16" -> <<call.data \div 256, call.data % 256>>
      [] call.op = "writeBytes" -> SubSeq(call.data.bytes, 1, call.length)

\* C25: every register write that passes validation performs exactly one
\* transaction: open(address), write(register address), the payload bytes in
\* buffer order, then exactly one close with stop; the status of that close is
\* the outcome of the call, so a failed close is reported and not retried.
C25_WriteOrder ==
    WritePassed =>
        LET w == WireCalls(trace)
            n == Len(Payload)
        IN /\ w = trace
           /\ Len(w) = n + 3
           /\ \A k \in 1..Len(w) : w[k].obj = WireOf(call.bus_id)
           /\ w[1].fn = "beginTransmission" /\ w[1].args = <<call.address>>
           /\ w[2].fn = "write" /\ w[2].args = <<call.reg_address>>
           /\ \A i \in 1..n : w[2 + i].fn = "write" /\ w[2 + i].args = <<Payload[i]>>
           /\ w[n + 3].fn = "endTransmission" /\ w[n + 3].args = <<1>>
           /\ ret = (w[n + 3].res = 0)
           /\ last_error = w[n + 3].res

\* writeBytes of two bytes was closed with status 4 and returned false
C25_Witness ==
    /\ WritePassed
    /\ call.op = "writeBytes" /\ call.length = 2
    /\ Len(trace) = 5
    /\ trace[5].res = 4
    /\ ret = FALSE /\ last_error = OTHER_ERROR

\* the arguments of the write() calls of the trace, in order
Written == LET w == SelectSeq(trace, LAMBDA e : e.fn = "write")
           IN [k \in 1..Len(w) |-> w[k].args[1]]
\* the results of the read() calls of the trace, in order
Delivered == LET r == SelectSeq(trace, LAMBDA e : e.fn = "read")
             IN [k \in 1..Len(r) |-> r[k].res]
\* the call is a readRegister16 of the register the call before wrote with
\* writeRegister16, on the device double
ReadBack16 ==
    /\ prior.op = "writeRegister16"
    /\ call.op = "readRegister16"
    /\ call.bus_id = prior.bus_id
    /\ call.address = prior.address
    /\ call.reg_address = prior.reg_address
    /\ IsDouble(getBus(prior.bus_id), prior.address)

\* C26: 16-bit values are big-endian on the wire: writeRegister16 writes the
\* register address, the high byte (word div 256) and the low byte (word mod
\* 256); readRegister16 returns 256 * first + second of the two bytes
\* delivered; and a writeRegister16 of w that succeeded, followed by
\* readRegister16 of the same register of the device double, returns w.
C26_BigEndian ==
    /\ (WritePassed /\ call.op = "writeRegister16") =>
            Written = <<call.reg_address, call.data \div 256, call.data % 256>>
    /\ (call.op = "readRegister16" /\ Len(Delivered) = 2) =>
            (ret = 256 * Delivered[1] + Delivered[2] /\ last_error = SUCCESS)
    /\ ReadBack16 => (ret = prior.data /\ last_error = SUCCESS)

\* 0xFF00 written to register 1 of the double was read back
C26_Witness ==
    /\ ReadBack16
    /\ prior.data = 65280 /\ prior.reg_address = 1
    /\ Delivered = <<255, 0>>
    /\ ret = 65280

\* positions of the trace: the closes of probes that were acknowledged, the
\* two callbacks, and the writes of a record for an acknowledging address
AckedAt == {k \in 1..Len(trace) : trace[k].fn = "endTransmission" /\ trace[k].res = 0}
FoundAt == {k \in 1..Len(trace) : trace[k].fn = "onDeviceFound"}
LostAt == {k \in 1..Len(trace) : trace[k].fn = "onDeviceLost"}
RecordedAt == {k \in 1..Len(trace) : trace[k].fn \in {"refresh", "push_back"}}
ProbedAt == {k \in 1..Len(trace) : IsWire(trace[k])}

\* C27: within one scanBus call the device-found callback for an address that
\* acknowledged comes right after that address's probe, before its record is
\* written and before the next probe, once for every acknowledging address,
\* known before or not; every device-lost callback comes after the last probe,
\* the last device-found callback and the last record written for a found
\* address.
C27_CallbackOrder ==
    call.op = "scanBus" =>
        /\ \A k \in AckedAt :
                /\ k + 2 <= Len(trace)
                /\ trace[k + 1] = onDeviceFound(call.bus_id, trace[k - 1].args[1])
                /\ k + 2 \in RecordedAt
                /\ trace[k + 2].args = <<call.bus_id, trace[k - 1].args[1]>>
        /\ \A k \in FoundAt : k - 1 \in AckedAt
        /\ Cardinality(FoundAt) = Len(ret)
        /\ [i \in 1..Len(ret) |-> <<call.bus_id, ret[i]>>]
                = [i \in 1..Len(ret) |->
                     (SelectSeq(trace, LAMBDA e : e.fn = "onDeviceFound")[i]).args]
        /\ \A k \in LostAt : \A j \in ProbedAt \cup FoundAt \cup RecordedAt : j < k

\* one scan found a device it knew, found one it did not, and lost another
C27_Witness ==
    /\ call.op = "scanBus"
    /\ \E k \in RecordedAt : trace[k].fn = "refresh"
    /\ LostAt # {}
    /\ Cardinality(FoundAt) >= 1

\* the call is a readBytes that validation let through
ReadBytesPassed == ReadPassed /\ call.op = "readBytes"
\* positions of the read requests of the trace
RequestedAt == {k \in 1..Len(trace) : trace[k].fn = "requestFrom"}

\* C28: readBytes hands the primitive its length in eight bits and compares
\* the count received with the whole length: with a length of 256 or more a
\* validated readBytes never succeeds, it fails with the status of the address
\* phase or requests length mod 256 bytes and fails with TIMEOUT; with a
\* length of 1..255 it succeeds exactly when the primitive returned that many
\* bytes.
C28_LengthInEightBits ==
    ReadBytesPassed =>
        /\ \A k \in RequestedAt : trace[k].args[2] = call.length % 256
        /\ call.length >= 256 =>
                /\ ret = FALSE
                /\ out_data = <<>>
                /\ IF RequestedAt = {}
                   THEN CloseStatus > 0 /\ last_error = CloseStatus
                   ELSE last_error = TIMEOUT
        /\ call.length \in 1..255 =>
                (ret = TRUE <=> \E k \in RequestedAt : trace[k].res = call.length)

\* readBytes for 257 bytes requested one byte, received one and failed with TIMEOUT
C28_Witness ==
    /\ ReadBytesPassed
    /\ call.length = 257
    /\ \E k \in RequestedAt : trace[k].args[2] = 1 /\ trace[k].res = 1
    /\ ret = FALSE /\ last_error = TIMEOUT
====
